---- MODULE Spec2Model ----
(***************************************************************************)
(* A model of DiscogsSearchTopRated (src/__main__.py): the search request, *)
(* paginate, filter_results with its rate-limited detail fetches, and      *)
(* output_results, run against a remote catalog that serves a chain of     *)
(* result pages and one detail record per release id.                      *)
(*                                                                         *)
(* Ratings are held in hundredths (4.01 is 401).  Time is counted in whole *)
(* seconds since the last outbound request, capped at MinInterval.         *)
(***************************************************************************)
EXTENDS Integers, Sequences, FiniteSets, TLC

VARIABLES
    server,            \* the remote catalog's chain of search result pages
    search_params,     \* run's argument: the search criteria
    min_rating,        \* run's argument
    no_videos,         \* run's argument
    pc,                \* position of the run
    err,               \* the exception that ended the run, or NoErr
    first_page,        \* search_releases / paginate: first_page
    current_page,      \* paginate: current_page
    results,           \* paginate: results; filter_results: results
    candidates,        \* the list search_releases returned to run
    release_ids,       \* filter_results: release_ids
    releases,          \* filter_results: releases (the data of each Release)
    filtered_releases, \* filter_results: filtered_releases
    output,            \* what output_results printed
    requests,          \* every session.get issued so far, in order
    elapsed            \* seconds since the last session.get, capped

vars == <<server, search_params, min_rating, no_videos, pc, err, first_page, current_page,
          results, candidates, release_ids, releases, filtered_releases,
          output, requests, elapsed>>

-----------------------------------------------------------------------------
(* Bounds of the model *)

MaxPages == 3

MaxResults == 2

ReleaseIds == {1, 2}

MasterIds == {0, 1}

Ratings == {400, 401, 402}

MinRatings == {400, 401}

VideoCounts == {0, 1}

\* the search fields a caller may give, of POSSIBLE_SEARCH_KEYS
SearchKeys == {"style", "format"}

\* response bodies that are not JSON
RawTexts == {"", "<html>"}

(* Program constants *)

SleepSeconds == 1

MinInterval == 1

-----------------------------------------------------------------------------
(* Values *)

None == -1

\* An exception is its type, the line that raised it and its arguments.
NoErr == [type |-> "none", line |-> 0, args |-> <<>>]

Raised(type, line) == [type |-> type, line |-> line, args |-> <<>>]

RaisedWith(type, line, args) == [type |-> type, line |-> line, args |-> args]

Min(a, b) == IF a < b THEN a ELSE b

SeqsUpTo(S, n) == UNION {[1..k -> S] : k \in 0..n}

\* Python's None as the value of a query parameter
NoValue == "None"

\* params=None, the default of request
NoParams == [k \in {} |-> NoValue]

\* what main hands to run: every search field, None for those not given
SearchParams == [SearchKeys -> {NoValue, "given"}]

\* setup_session, line 51: session.params
SessionParams ==
    [k \in {"token", "per_page"} |-> IF k = "token" THEN "DISCOGS_API_TOKEN" ELSE "100"]

\* a URL is known by the endpoint and what it names there: the search (line
\* 72), a page of it (line 177), a release (line 130)
Url(kind, target) == <<kind, target>>

\* response.text of an answer whose body is JSON, and of no answer at all
JsonText == "json"

NoText == "none"

\* A search result entry: a master entry has id = master_id; a release has
\* the id of its master there, or 0 when it has none.
Candidates == [id : ReleaseIds, master_id : MasterIds]

\* A JSON body is a record with the set of its keys; a key that is absent
\* holds a placeholder that is never read.
Page(rs, stated, nxt) ==
    [keys |-> {"results", "pagination"}, results |-> rs, pages |-> stated, next |-> nxt]

ErrorPage == [keys |-> {"message"}, results |-> <<>>, pages |-> 0, next |-> 0]

NoPage == [keys |-> {}, results |-> <<>>, pages |-> 0, next |-> 0]

ReleaseData(ks, r, v) == [keys |-> ks, rating |-> r, videos |-> v]

ErrorEnvelope == ReleaseData({"message"}, 0, 0)

\* The bodies the detail endpoint answers with status 200.
DetailRecords ==
    {ReleaseData({"community", "videos"}, r, v) : r \in Ratings, v \in VideoCounts}
    \cup {ReleaseData({"community"}, r, 0) : r \in Ratings}
    \cup {ReleaseData({}, 0, 0)}

\* What a session.get can come to: a 200 answer, a non-success status whose
\* body is the API's JSON error envelope, an exception of the transport
\* (timeout, connection reset), or a body that is not JSON.
Outcomes == {"ok", "http_error", "transport", "not_json"}

\* response.text for an outcome
ResponseTexts(outcome) ==
    CASE outcome = "not_json" -> RawTexts
      [] outcome = "transport" -> {NoText}
      [] OTHER -> {JsonText}

-----------------------------------------------------------------------------
(* The remote catalog *)

RECURSIVE ResultSplits(_, _)
\* the ways to lay at most `budget` results out on n pages
ResultSplits(n, budget) ==
    IF n = 0 THEN {<<>>}
    ELSE UNION {{<<rs>> \o rest : rest \in ResultSplits(n - 1, budget - Len(rs))} :
                    rs \in SeqsUpTo(Candidates, budget)}

\* a chain: every page but the last names the next one
Chain(split, stated) ==
    [i \in 1..Len(split) |->
        Page(split[i], stated, IF i < Len(split) THEN i + 1 ELSE 0)]

\* chains whose stated page count is any number
Chains ==
    UNION {{Chain(s, p) : s \in ResultSplits(n, MaxResults), p \in 0..MaxPages} :
              n \in 1..MaxPages}

\* chains whose stated page count is the number of pages
ProtocolChains ==
    UNION {{Chain(s, n) : s \in ResultSplits(n, MaxResults)} : n \in 1..MaxPages}

\* chains whose last page has a pagination block without the 'urls' entry
\* (next = None stands for it)
MalformedChains == {[c EXCEPT ![Len(c)].next = None] : c \in Chains}

-----------------------------------------------------------------------------
(* Pure parts of the program *)

\* line 83 without its test: every search result is kept
KeepsEveryResult(r) == TRUE

\* filter_results, line 83: r["id"] != r["master_id"]
NotMaster(r) == r.id # r.master_id

\* Release.rating
Rating(data) == IF "community" \in data.keys THEN data.rating ELSE None

\* a slip in line 88: >= for >
RatingAtLeast(rating, minimum) == rating >= minimum

\* filter_results, line 88: r.rating > min_rating, for a rating that is a number
RatingAbove(rating, minimum) == rating > minimum

\* filter_results, line 88: None > float raises TypeError
RatingFilterRaises(rels) == \E i \in 1..Len(rels) : Rating(rels[i]) = None

RatingFilter(rels, minimum) ==
    SelectSeq(rels, LAMBDA d : RatingAbove(Rating(d), minimum))

\* Release.has_videos as written: "videos" in self.data and len(self.data["videos"])
HasVideosBody(data) == "videos" \in data.keys /\ data.videos > 0

\* Release.has_videos is property(property(f)): reading it calls the inner
\* property object, which is not callable, for every Release.
HasVideosRaises(data) == TRUE

\* filter_results, line 92: the comprehension reads r.has_videos of each element
VideoFilterRaises(rels) == \E i \in 1..Len(rels) : HasVideosRaises(rels[i])

VideoFilter(rels) == SelectSeq(rels, LAMBDA d : ~HasVideosBody(d))

\* a slip in line 179: = for +=
ExtendResultsAssigns(acc, page) == page.results

\* paginate, line 179: results += current_page[results_key]
ExtendResults(acc, page) == acc \o page.results

\* paginate, line 176: current_page["pagination"]["urls"] raises KeyError
UrlsMissing(page) == page.next = None

\* paginate, line 176: "next" in current_page["pagination"]["urls"]
HasNext(page) == page.next > 0

\* line 86 walking release_ids from its end
NextReleaseIdFromEnd(ids, done) == ids[Len(ids) - Len(done)]

\* filter_results, line 86: the comprehension takes release_ids in order
NextReleaseId(ids, done) == ids[Len(done) + 1]

\* time.sleep(n) as seen by the capped clock
Sleep(e, n) == Min(e + n, MinInterval)

\* line 117 without its test: the caller's params whatever paginating is
RequestParamsAsGiven(params, paginating) == params

\* request, line 117
RequestParams(params, paginating) ==
    IF paginating THEN [k \in {"token", "per_page"} |-> NoValue] ELSE params

\* session.get, line 118: the query the session sends, the request's params
\* laid over session.params and every key the request sets to None removed
MergeSetting(request_setting, session_setting) ==
    LET none_keys == {k \in DOMAIN request_setting : request_setting[k] = NoValue}
        keys == (DOMAIN request_setting \cup DOMAIN session_setting) \ none_keys
    IN  [k \in keys |-> IF k \in DOMAIN request_setting THEN request_setting[k]
                                                          ELSE session_setting[k]]

\* the record of one session.get: the URL (kind, target), the query added to
\* it, how it came out, the seconds since the request before, response.text
Request(kind, target, params, outcome, gap, text) ==
    [kind |-> kind, target |-> target, params |-> params, outcome |-> outcome,
     gap |-> gap, text |-> text]

\* lines 120-123 swallowing the JSONDecodeError
RequestRaisesNoValueError(outcome, url, text) ==
    IF outcome = "transport" THEN Raised("TransportError", 118) ELSE NoErr

\* request, lines 118-123: what the caller gets for an outcome of session.get
RequestRaises(outcome, url, text) ==
    CASE outcome = "transport" -> Raised("TransportError", 118)
      [] outcome = "not_json" -> RaisedWith("ValueError", 123, <<url, text>>)
      [] OTHER -> NoErr

-----------------------------------------------------------------------------
(* Initial states *)

InitRun ==
    /\ search_params \in SearchParams
    /\ min_rating \in MinRatings
    /\ no_videos \in BOOLEAN
    /\ pc = "start"
    /\ err = NoErr
    /\ first_page = NoPage
    /\ current_page = NoPage
    /\ results = <<>>
    /\ candidates = <<>>
    /\ release_ids = <<>>
    /\ releases = <<>>
    /\ filtered_releases = <<>>
    /\ output = <<>>
    /\ requests = <<>>
    /\ elapsed = MinInterval

\* run against a catalog that follows its pagination protocol
Init == server \in ProtocolChains /\ InitRun

\* search_releases against a catalog whose stated page count is anything;
\* min_rating and no_videos, which it never reads, are main's defaults
InitSearch == server \in Chains /\ InitRun /\ min_rating = 400 /\ ~no_videos

\* search_releases against a catalog whose last page may lack the 'urls' entry
InitMalformed ==
    server \in Chains \cup MalformedChains /\ InitRun /\ min_rating = 400 /\ ~no_videos

\* filter_results as run calls it (line 63) after a search of one page
InitFilter ==
    /\ \E rs \in SeqsUpTo(Candidates, MaxResults) :
        /\ server = Chain(<<rs>>, 1)
        /\ first_page = server[1]
        /\ results = rs
        /\ candidates = rs
    /\ search_params = [k \in SearchKeys |-> IF k = "style" THEN "given" ELSE NoValue]
    /\ min_rating \in MinRatings
    /\ no_videos \in BOOLEAN
    /\ pc = "searched"
    /\ err = NoErr
    /\ current_page = NoPage
    /\ release_ids = <<>>
    /\ releases = <<>>
    /\ filtered_releases = <<>>
    /\ output = <<>>
    /\ requests = <<Request("search", 1,
                             MergeSetting(RequestParams(search_params, FALSE), SessionParams),
                             "ok", MinInterval, JsonText)>>
    /\ elapsed = 0

-----------------------------------------------------------------------------
(* search_releases and paginate *)

\* search_releases, lines 72-73: the first page
SearchRequest ==
    /\ pc = "start"
    /\ \E outcome \in Outcomes : \E text \in ResponseTexts(outcome) :
        /\ requests' = Append(requests,
                              Request("search", 1,
                                      MergeSetting(RequestParams(search_params, FALSE),
                                                   SessionParams),
                                      outcome, elapsed, text))
        /\ err' = RequestRaises(outcome, Url("search", 1), text)
        /\ pc' = IF err' = NoErr THEN "paginate" ELSE "failed"
        /\ first_page' = CASE outcome = "ok" -> server[1]
                           [] outcome = "http_error" -> ErrorPage
                           [] OTHER -> first_page
    /\ elapsed' = 0
    /\ UNCHANGED <<server, search_params, min_rating, no_videos, current_page, results, candidates,
                   release_ids, releases, filtered_releases, output>>

\* paginate, lines 171-175 (and 180 when there is one page)
PaginateBegin ==
    /\ pc = "paginate"
    /\ IF "results" \notin first_page.keys
       THEN /\ err' = Raised("KeyError", 171)
            /\ pc' = "failed"
            /\ UNCHANGED <<results, candidates, current_page, elapsed>>
       ELSE /\ results' = first_page.results
            /\ err' = err
            /\ IF first_page.pages > 1
               THEN /\ elapsed' = Sleep(elapsed, SleepSeconds)
                    /\ current_page' = first_page
                    /\ pc' = "loop"
                    /\ UNCHANGED candidates
               ELSE /\ candidates' = results'
                    /\ pc' = "searched"
                    /\ UNCHANGED <<current_page, elapsed>>
    /\ UNCHANGED <<server, search_params, min_rating, no_videos, first_page, release_ids, releases,
                   filtered_releases, output, requests>>

\* lines 176-179 with line 178 lost: the page fetched never becomes current_page
PaginateFetchSamePage ==
    /\ pc = "loop"
    /\ HasNext(current_page)
    /\ requests' = Append(requests,
                          Request("page", current_page.next,
                                  MergeSetting(RequestParams(NoParams, TRUE), SessionParams),
                                  "ok", elapsed, JsonText))
    /\ results' = ExtendResults(results, server[current_page.next])
    /\ first_page' = [first_page EXCEPT !.results = results']
    /\ elapsed' = 0
    /\ UNCHANGED <<server, search_params, min_rating, no_videos, pc, err, current_page, candidates,
                   release_ids, releases, filtered_releases, output>>

\* paginate, lines 176-179: one turn of the loop.  results is the list object
\* held by first_page, so += changes both.
PaginateFetch ==
    /\ pc = "loop"
    /\ HasNext(current_page)
    /\ \E outcome \in Outcomes : \E text \in ResponseTexts(outcome) :
        /\ requests' = Append(requests,
                              Request("page", current_page.next,
                                      MergeSetting(RequestParams(NoParams, TRUE),
                                                   SessionParams),
                                      outcome, elapsed, text))
        /\ LET raised == RequestRaises(outcome, Url("page", current_page.next), text)
               page == IF outcome = "ok" THEN server[current_page.next] ELSE ErrorPage
           IN  IF raised # NoErr
               THEN /\ err' = raised
                    /\ pc' = "failed"
                    /\ UNCHANGED <<current_page, results, first_page>>
               ELSE /\ current_page' = page
                    /\ IF "results" \notin page.keys
                       THEN /\ err' = Raised("KeyError", 179)
                            /\ pc' = "failed"
                            /\ UNCHANGED <<results, first_page>>
                       ELSE /\ results' = ExtendResults(results, page)
                            /\ first_page' = [first_page EXCEPT !.results = results']
                            /\ UNCHANGED <<err, pc>>
    /\ elapsed' = 0
    /\ UNCHANGED <<server, search_params, min_rating, no_videos, candidates, release_ids, releases,
                   filtered_releases, output>>

\* lines 176-180 reading urls["next"] for as long as the stated page count
\* promises a page: KeyError when the page names none
PaginateReturnTrustsCount ==
    /\ pc = "loop"
    /\ ~UrlsMissing(current_page)
    /\ ~HasNext(current_page)
    /\ IF Len(requests) < first_page.pages
       THEN /\ err' = Raised("KeyError", 177)
            /\ pc' = "failed"
            /\ UNCHANGED candidates
       ELSE /\ candidates' = results
            /\ pc' = "searched"
            /\ UNCHANGED err
    /\ UNCHANGED <<server, search_params, min_rating, no_videos, first_page, current_page,
                   results, release_ids, releases, filtered_releases, output,
                   requests, elapsed>>

\* paginate, lines 176 and 180: no next page, return results
PaginateReturn ==
    /\ pc = "loop"
    /\ ~UrlsMissing(current_page)
    /\ ~HasNext(current_page)
    /\ candidates' = results
    /\ pc' = "searched"
    /\ UNCHANGED <<server, search_params, min_rating, no_videos, err, first_page, current_page,
                   results, release_ids, releases, filtered_releases, output,
                   requests, elapsed>>

\* paginate, line 176: the page at hand has no 'urls' entry
PaginateUrlsMissing ==
    /\ pc = "loop"
    /\ UrlsMissing(current_page)
    /\ err' = Raised("KeyError", 176)
    /\ pc' = "failed"
    /\ UNCHANGED <<server, search_params, min_rating, no_videos, first_page, current_page,
                   results, candidates, release_ids, releases, filtered_releases,
                   output, requests, elapsed>>

-----------------------------------------------------------------------------
(* filter_results and output_results *)

\* filter_results, lines 83-85
FilterMasters ==
    /\ pc = "searched"
    /\ results' = SelectSeq(results, NotMaster)
    /\ release_ids' = [i \in 1..Len(results') |-> results'[i].id]
    /\ pc' = "enrich"
    /\ UNCHANGED <<server, search_params, min_rating, no_videos, err, first_page, current_page,
                   candidates, releases, filtered_releases, output, requests, elapsed>>

\* filter_results, line 86, one element: get_full_release, lines 129-132
GetFullRelease ==
    /\ pc = "enrich"
    /\ Len(releases) < Len(release_ids)
    /\ \E outcome \in Outcomes : \E text \in ResponseTexts(outcome) :
        /\ requests' = Append(requests,
                              Request("release", NextReleaseId(release_ids, releases),
                                      MergeSetting(RequestParams(NoParams, FALSE),
                                                   SessionParams),
                                      outcome, Sleep(elapsed, SleepSeconds), text))
        /\ err' = RequestRaises(outcome, Url("release", NextReleaseId(release_ids, releases)),
                                text)
        /\ pc' = IF err' = NoErr THEN pc ELSE "failed"
        /\ CASE outcome = "ok" ->
                  \E data \in DetailRecords : releases' = Append(releases, data)
             [] outcome = "http_error" -> releases' = Append(releases, ErrorEnvelope)
             [] OTHER -> releases' = releases
    /\ elapsed' = 0
    /\ UNCHANGED <<server, search_params, min_rating, no_videos, first_page, current_page, results,
                   candidates, release_ids, filtered_releases, output>>

\* filter_results, lines 88-89
FilterByRating ==
    /\ pc = "enrich"
    /\ Len(releases) = Len(release_ids)
    /\ IF RatingFilterRaises(releases)
       THEN /\ err' = Raised("TypeError", 88)
            /\ pc' = "failed"
            /\ UNCHANGED filtered_releases
       ELSE /\ filtered_releases' = RatingFilter(releases, min_rating)
            /\ pc' = IF no_videos THEN "videos" ELSE "output"
            /\ UNCHANGED err
    /\ UNCHANGED <<server, search_params, min_rating, no_videos, first_page, current_page, results,
                   candidates, release_ids, releases, output, requests, elapsed>>

\* filter_results, lines 91-93
FilterByVideos ==
    /\ pc = "videos"
    /\ IF VideoFilterRaises(filtered_releases)
       THEN /\ err' = Raised("TypeError", 92)
            /\ pc' = "failed"
            /\ UNCHANGED filtered_releases
       ELSE /\ filtered_releases' = VideoFilter(filtered_releases)
            /\ pc' = "output"
            /\ UNCHANGED err
    /\ UNCHANGED <<server, search_params, min_rating, no_videos, first_page, current_page, results,
                   candidates, release_ids, releases, output, requests, elapsed>>

\* run, lines 65-68, and output_results
OutputResults ==
    /\ pc = "output"
    /\ output' = filtered_releases
    /\ pc' = "done"
    /\ UNCHANGED <<server, search_params, min_rating, no_videos, err, first_page, current_page,
                   results, candidates, release_ids, releases, filtered_releases,
                   requests, elapsed>>

\* time passing while the run is between two steps
Tick ==
    /\ pc \notin {"done", "failed"}
    /\ elapsed < MinInterval
    /\ elapsed' = elapsed + 1
    /\ UNCHANGED <<server, search_params, min_rating, no_videos, pc, err, first_page, current_page,
                   results, candidates, release_ids, releases, filtered_releases,
                   output, requests>>

-----------------------------------------------------------------------------
(* Specifications *)

NextSearch == SearchRequest \/ PaginateBegin \/ PaginateFetch \/ PaginateReturn \/ Tick

NextFilter ==
    FilterMasters \/ GetFullRelease \/ FilterByRating \/ FilterByVideos
        \/ OutputResults \/ Tick

Next == NextSearch \/ NextFilter

\* run, from its call to its end
Spec == Init /\ [][Next]_vars

\* search_releases alone
SpecSearch == InitSearch /\ [][NextSearch]_vars

\* filter_results and output_results alone
SpecFilter == InitFilter /\ [][NextFilter]_vars

\* search_releases alone, on pages without the 'urls' entry
SpecMalformed == InitMalformed /\ [][NextSearch \/ PaginateUrlsMissing]_vars

\* search_releases alone, every call it makes returning or raising: the
\* program is sequential and takes its next step whenever it has one
SpecSearchFair ==
    InitSearch /\ [][NextSearch]_vars
        /\ WF_vars(SearchRequest \/ PaginateBegin \/ PaginateFetch \/ PaginateReturn)

-----------------------------------------------------------------------------
(* Readings of the state used by the properties *)

RECURSIVE Flatten(_)
\* the result lists of a chain of pages, one after the other
Flatten(chain) ==
    IF chain = <<>> THEN <<>> ELSE chain[1].results \o Flatten(Tail(chain))

\* the requests of one kind, in the order issued
RequestsOf(kind) == SelectSeq(requests, LAMBDA q : q.kind = kind)

Ended == pc \in {"done", "failed"}

\* the search results that are no master entries
Eligible(cands) == SelectSeq(cands, LAMBDA c : c.id # c.master_id)

HasRating(d) == "community" \in d.keys

\* the query parameters a URL already holds: the catalog writes those of the
\* search into every next-page URL it hands out (comment of line 116)
UrlEmbeds(kind) == IF kind = "page" THEN DOMAIN SessionParams ELSE {}

\* every request so far was answered with status 200 and a JSON body
AllAnswered == \A i \in 1..Len(requests) : requests[i].outcome = "ok"

-----------------------------------------------------------------------------
(* Properties *)

\* C1: for a chain of N pages whose stated page count is N and whose pages all
\* name the next one but the last, paginate returns the pages' result lists
\* concatenated in page order, after exactly N-1 follow-up fetches, issued for
\* pages 2..N in that order.
C1_PaginateConcatenates ==
    (pc = "searched" /\ server[1].pages = Len(server)) =>
        /\ candidates = Flatten(server)
        /\ Len(RequestsOf("page")) = Len(server) - 1
        /\ \A i \in 1..Len(RequestsOf("page")) : RequestsOf("page")[i].target = i + 1

\* C1 witness: a three-page chain with results on two different pages has
\* been drained.
C1_Witness ==
    /\ pc = "searched"
    /\ Len(server) = 3
    /\ server[1].pages = 3
    /\ Len(server[1].results) = 1
    /\ Len(server[3].results) = 1
    /\ server[1].results # server[3].results
    /\ Len(candidates) = 2

\* C2: every outbound request but the first is issued no earlier than
\* MinInterval after the request before it.
C2_RequestsSpaced ==
    \A i \in 2..Len(requests) : requests[i].gap >= MinInterval

\* C3: the rating filter raises nothing, and what it returns holds no release
\* without a rating.
C3_AbsentRatingExcluded ==
    /\ err # Raised("TypeError", 88)
    /\ pc \in {"videos", "output", "done"} =>
          \A i \in 1..Len(filtered_releases) : HasRating(filtered_releases[i])

\* C4: when a detail fetch is answered with the error envelope, every other
\* detail record carries a rating and no request raises, the run ends normally
\* and outputs the other candidates' releases rated above min_rating.
C4_ErrorEnvelopeDropsOneCandidate ==
    ( /\ Ended
      /\ ~no_videos
      /\ \A i \in 1..Len(requests) : requests[i].outcome \in {"ok", "http_error"}
      /\ \A i \in 1..Len(requests) :
            requests[i].outcome = "http_error" => requests[i].kind = "release"
      /\ \E i \in 1..Len(releases) : releases[i] = ErrorEnvelope
      /\ \A i \in 1..Len(releases) : releases[i] # ErrorEnvelope => HasRating(releases[i]) )
    => /\ pc = "done"
       /\ Len(RequestsOf("release")) = Len(Eligible(candidates))
       /\ output = SelectSeq(releases, LAMBDA d : HasRating(d) /\ d.rating > min_rating)

\* C5: the detail fetches issued so far are, in order, for the first of the
\* search results whose id differs from their master_id: none is for a master.
C5_NoDetailFetchForMasters ==
    LET fetched == RequestsOf("release")
        eligible == Eligible(candidates)
    IN  /\ Len(fetched) <= Len(eligible)
        /\ \A i \in 1..Len(fetched) : fetched[i].target = eligible[i].id

\* C5 witness: the search results hold a master entry and a release, and the
\* detail fetches have all been issued.
C5_Witness ==
    /\ pc = "output"
    /\ Len(candidates) = 2
    /\ \E i \in 1..2 : candidates[i].id = candidates[i].master_id
    /\ Len(RequestsOf("release")) = 1

\* C6: a release with a rating survives the rating filter exactly when its
\* rating is greater than min_rating; one rated exactly min_rating does not.
C6_StrictThreshold ==
    (pc = "videos" \/ (pc \in {"output", "done"} /\ ~no_videos)) =>
        /\ filtered_releases = SelectSeq(releases, LAMBDA d : d.rating > min_rating)
        /\ \A i \in 1..Len(filtered_releases) : filtered_releases[i].rating # min_rating

\* C6 witness: of two releases, one rated min_rating and one a hundredth
\* above, the rating filter kept the second alone.
C6_Witness ==
    /\ pc = "output"
    /\ Len(releases) = 2
    /\ releases[1].rating = min_rating
    /\ releases[2].rating = min_rating + 1
    /\ filtered_releases = <<releases[2]>>

\* C7: what run outputs is the filtered releases in descending order of
\* rating, those of equal rating in their enrichment order.
C7_OutputSortedByRating ==
    pc = "done" =>
        /\ \A i \in 1..Len(output) : \A j \in i..Len(output) :
              output[i].rating >= output[j].rating
        /\ \A r \in Ratings :
              SelectSeq(output, LAMBDA d : d.rating = r)
                  = SelectSeq(filtered_releases, LAMBDA d : d.rating = r)

\* C8: with no_videos set, filter_results raises nothing in its video filter
\* and returns the releases rated above min_rating that have no video.
C8_NoVideosFilter ==
    no_videos =>
        /\ err # Raised("TypeError", 92)
        /\ pc \in {"output", "done"} =>
              filtered_releases =
                  SelectSeq(releases,
                            LAMBDA d : /\ d.rating > min_rating
                                       /\ ~("videos" \in d.keys /\ d.videos > 0))

\* C9: a run whose requests are all answered ends normally; it has fetched the
\* detail of each search result that is no master, of every page, and outputs
\* those rated above min_rating.
C9_EndToEnd ==
    (Ended /\ ~no_videos /\ AllAnswered) =>
        /\ pc = "done"
        /\ candidates = Flatten(server)
        /\ Len(releases) = Len(Eligible(candidates))
        /\ \A i \in 1..Len(releases) :
              RequestsOf("release")[i].target = Eligible(candidates)[i].id
        /\ output = SelectSeq(releases, LAMBDA d : HasRating(d) /\ d.rating > min_rating)

\* C10: a request that met a transport failure or a non-success status is the
\* last request of the run, nothing is output after it, and the body of a
\* non-success answer never becomes a Release.
C10_TransportFailureFatal ==
    /\ \A i \in 1..Len(requests) :
          requests[i].outcome \in {"transport", "http_error"} =>
              /\ i = Len(requests)
              /\ pc # "done"
    /\ \A i \in 1..Len(releases) : releases[i] # ErrorEnvelope

\* C13: when the first page names no next page, whatever its stated page count,
\* paginate raises nothing, issues no follow-up fetch and returns that page's
\* results.
C13_SinglePageReturnsFirstPage ==
    ("results" \in first_page.keys /\ server[1].next = 0) =>
        /\ err = NoErr
        /\ RequestsOf("page") = <<>>
        /\ pc = "searched" => candidates = server[1].results

\* C13 witness: a first page that states three pages and names no next one has
\* been returned as it is.
C13_Witness ==
    /\ pc = "searched"
    /\ server[1].next = 0
    /\ server[1].pages = 3
    /\ Len(candidates) = 2
    /\ Len(requests) = 1

\* C14: paginate follows every next-page URL whatever the stated page count:
\* when it returns it has fetched every page of the chain and holds the
\* results of all of them.
C14_TraversalFollowsNextOnly ==
    pc = "searched" =>
        /\ Len(RequestsOf("page")) = Len(server) - 1
        /\ candidates = Flatten(server)

\* C17: paginate comes to its end, returning or raising, and meanwhile fetches
\* no page of the chain twice.
C17_PaginateTerminates ==
    /\ <>(pc \in {"searched", "failed"})
    /\ [](\A i \in 1..Len(requests) : \A j \in 1..Len(requests) :
             requests[i].target = requests[j].target => i = j)

\* C17 witness: a chain of three pages has been walked to its last page.
C17_Witness ==
    /\ pc = "searched"
    /\ Len(server) = 3
    /\ Len(RequestsOf("page")) = 2

\* C18: the first page paginate was given keeps the results the catalog sent
\* in it.
C18_FirstPageNotMutated ==
    "results" \in first_page.keys => first_page = server[1]

\* C15: a page whose pagination block lacks the 'urls' entry is no fault: no
\* KeyError is raised for it, and when every request was answered paginate
\* returns the results of the pages it fetched.
C15_MalformedPaginationEndsTraversal ==
    /\ err # Raised("KeyError", 176)
    /\ (Ended /\ AllAnswered) =>
          /\ pc = "searched"
          /\ candidates = Flatten(SubSeq(server, 1, Len(requests)))

\* C11: a request whose response body is not JSON raises ValueError carrying
\* that request's URL and the raw body, is the last request of the run, and
\* nothing is output.
C11_MalformedResponseAborts ==
    \A i \in 1..Len(requests) :
        requests[i].outcome = "not_json" =>
            /\ i = Len(requests)
            /\ pc = "failed"
            /\ err = RaisedWith("ValueError", 123,
                                <<Url(requests[i].kind, requests[i].target), requests[i].text>>)
            /\ output = <<>>

\* C11 witness: after a search and one detail fetch were answered, the second
\* detail fetch got an HTML body and the run stopped on its ValueError.
C11_Witness ==
    /\ pc = "failed"
    /\ Len(requests) = 3
    /\ Len(releases) = 1
    /\ requests[3].kind = "release"
    /\ requests[3].outcome = "not_json"
    /\ err.type = "ValueError"
    /\ err.args = <<Url("release", requests[3].target), "<html>">>

\* C12: every request carries token and per_page exactly once: the search
\* request and the detail fetches have the session's values attached, a
\* pagination follow-up has neither attached, its URL holding them already.
C12_CredentialsExactlyOnce ==
    \A i \in 1..Len(requests) : \A k \in DOMAIN SessionParams :
        LET q == requests[i]
        IN  /\ (k \in DOMAIN q.params) # (k \in UrlEmbeds(q.kind))
            /\ q.kind \in {"search", "release"} =>
                  (k \in DOMAIN q.params /\ q.params[k] = SessionParams[k])
            /\ q.kind = "page" => k \notin DOMAIN q.params

\* C12 witness: a run has issued its search, a pagination follow-up with an
\* empty query and a detail fetch with the session's token.
C12_Witness ==
    /\ Len(requests) = 3
    /\ requests[1].kind = "search"
    /\ requests[1].params["token"] = SessionParams["token"]
    /\ requests[2].kind = "page"
    /\ DOMAIN requests[2].params = {}
    /\ requests[3].kind = "release"
    /\ requests[3].params = SessionParams

\* C19: the search request carries every criterion the caller gave, unchanged,
\* none of those the caller left null, and a format filter of its own whatever
\* the criteria are.
C19_SearchCarriesCriteriaAndFormat ==
    \A i \in 1..Len(requests) :
        requests[i].kind = "search" =>
            /\ \A k \in SearchKeys :
                  IF search_params[k] = NoValue
                  THEN k \notin DOMAIN requests[i].params
                  ELSE k \in DOMAIN requests[i].params
                       /\ requests[i].params[k] = search_params[k]
            /\ \E k \in {"format", "type"} : k \in DOMAIN requests[i].params

\* C16: the requests issued so far are the beginning of one fixed trace: the
\* search, the follow-ups for pages 2..N in page order, then one detail fetch
\* for each search result that is no master, in the order of the results.  A
\* request is issued only after the one before it returned, and the rating and
\* video filters run only when every detail fetch has returned.
C16_RequestTraceStaged ==
    LET eligible == Eligible(Flatten(server))
        expected == <<Url("search", 1)>>
                        \o [i \in 1..(Len(server) - 1) |-> Url("page", i + 1)]
                        \o [i \in 1..Len(eligible) |-> Url("release", eligible[i].id)]
        trace == [i \in 1..Len(requests) |-> Url(requests[i].kind, requests[i].target)]
    IN  /\ Len(trace) <= Len(expected)
        /\ trace = SubSeq(expected, 1, Len(trace))
        /\ \A i \in 1..(Len(requests) - 1) : requests[i].outcome \in {"ok", "http_error"}
        /\ (pc \in {"videos", "output", "done"} \/ err.line \in {88, 92}) =>
              /\ trace = expected
              /\ Len(releases) = Len(eligible)

\* C16 witness: a run over three pages ended after its search, two follow-ups
\* and the detail fetches of two releases found on different pages.
C16_Witness ==
    /\ pc = "done"
    /\ Len(server) = 3
    /\ Len(server[1].results) = 1
    /\ Len(server[3].results) = 1
    /\ Len(requests) = 5
    /\ requests[4].kind = "release"
    /\ requests[4].target # requests[5].target

====
